---- MODULE Spec2Model ----
(***************************************************************************)
(* A model of simpleperf's `stat` command (src/simpleperf/cmd_stat.cpp):   *)
(* the measurement-window controller StatCommand::Run with its signal      *)
(* handler, and the summary engine (CounterSummary, CounterSummaries,      *)
(* ShowCounters).                                                          *)
(*                                                                         *)
(* Conventions.                                                            *)
(*  - std::string values are sequences of one-character strings, so that   *)
(*    insert, substr, EndsWith and concatenation are modelled by what they *)
(*    do.                                                                  *)
(*  - A double is an exact rational.  `scale` is the pair <<num, den>>     *)
(*    (value num/den); the literal 1.0 is <<1, 1>>.  duration_in_sec is a  *)
(*    whole number of milliseconds.  Floating-point rounding error is not  *)
(*    modelled; printf's rounding to the printed precision is (DivFixed).  *)
(*  - uint64_t counts and times are naturals far below 2^64: no sum of the *)
(*    model wraps.                                                         *)
(***************************************************************************)
EXTENDS Integers, Sequences, FiniteSets, TLC

VARIABLES
    pc,                       \* position of the main thread in StatCommand::Run
    signaled,                 \* static volatile bool signaled
    lastSignal,               \* the signal the handler ran for last ("none" before any)
    system_wide_collection_,  \* StatCommand fields set by ParseOptions
    monitored_threads_,
    cpus_,
    csv_,
    verbose_mode_,
    output_filename_,
    workload,                 \* "none", "created" or "started"
    opened,                   \* "none", "cpus" (OpenEventFilesForCpus) or "threads"
    openedTarget,             \* the arguments the open call was given
    readCalls,                \* number of calls of EventSelectionSet::ReadCounters
    counters,                 \* what ReadCounters returned
    duration_ms,              \* end_time - start_time
    summaries_,               \* CounterSummaries::summaries_
    report,                   \* what ShowCounters has written to fp
    ret,                      \* Run's return value: "none", "true" or "false"
    failure,                  \* where Run returned false ("none" if it has not)
    sleeps,                   \* completed sleep(1) calls of the wait loop
    args,                     \* what the command line and the environment gave
    runs,                     \* calls of the operation under study (function specs)
    before                    \* summaries_ before the last call (function specs)

vars == <<pc, signaled, lastSignal, system_wide_collection_, monitored_threads_,
          cpus_, csv_, verbose_mode_, output_filename_, workload, opened,
          openedTarget, readCalls, counters, duration_ms, summaries_, report,
          ret, failure, sleeps, args, runs, before>>

-----------------------------------------------------------------------------
(* Strings *)

DigitChars == <<"0", "1", "2", "3", "4", "5", "6", "7", "8", "9">>

S_cpu_clock == <<"c","p","u","-","c","l","o","c","k">>
S_task_clock == <<"t","a","s","k","-","c","l","o","c","k">>
S_cpu_cycles == <<"c","p","u","-","c","y","c","l","e","s">>
S_instructions == <<"i","n","s","t","r","u","c","t","i","o","n","s">>
S_cache_misses == <<"c","a","c","h","e","-","m","i","s","s","e","s">>
S_cache_references == <<"c","a","c","h","e","-","r","e","f","e","r","e","n","c","e","s">>
S_branch_misses == <<"b","r","a","n","c","h","-","m","i","s","s","e","s">>
S_branch_instructions == <<"b","r","a","n","c","h","-","i","n","s","t","r","u","c","t","i","o","n","s">>
S_page_faults == <<"p","a","g","e","-","f","a","u","l","t","s">>
S_misses == <<"-","m","i","s","s","e","s">>
S_u == <<"u">>
S_k == <<"k">>
S_empty == <<>>

\* android::base::EndsWith
EndsWith(s, suffix) ==
    /\ Len(s) >= Len(suffix)
    /\ SubSeq(s, Len(s) - Len(suffix) + 1, Len(s)) = suffix

\* StringPrintf("%" PRIu64, n)
RECURSIVE ToDigits(_)
ToDigits(n) ==
    IF n < 10 THEN <<DigitChars[n + 1]>>
    ELSE ToDigits(n \div 10) \o <<DigitChars[(n % 10) + 1]>>

\* n as exactly w digits, zero padded on the left (the fraction of %.wlf)
RECURSIVE PadDigits(_, _)
PadDigits(n, w) ==
    IF w = 0 THEN <<>>
    ELSE PadDigits(n \div 10, w - 1) \o <<DigitChars[(n % 10) + 1]>>

RECURSIVE Pow10(_)
Pow10(w) == IF w = 0 THEN 1 ELSE 10 * Pow10(w - 1)

\* printf("%.<decimals>lf", x) of the value x = scaled / 10^decimals
FormatFixed(scaled, decimals) ==
    ToDigits(scaled \div Pow10(decimals)) \o <<".">> \o
    PadDigits(scaled % Pow10(decimals), decimals)

\* x = a / b printed with `decimals` digits after the point, as the integer
\* x * 10^decimals: long division, the last digit rounded to nearest
RECURSIVE DivDigits(_, _, _, _)
DivDigits(q, r, b, decimals) ==
    IF decimals = 0 THEN (IF 2 * r >= b THEN q + 1 ELSE q)
    ELSE DivDigits(q * 10 + (r * 10) \div b, (r * 10) % b, b, decimals - 1)

DivFixed(a, b, decimals) == DivDigits(a \div b, a % b, b, decimals)

-----------------------------------------------------------------------------
(* struct CounterSummary *)

ONE == <<1, 1>>                 \* the double 1.0

SCALE_ERROR_LIMIT_INV == 100000 \* 1 / SCALE_ERROR_LIMIT

Abs(x) == IF x < 0 THEN -x ELSE x

\* fabs(scale - 1.0) < SCALE_ERROR_LIMIT, that is |num - den| * 10^5 < den
IsMonitoredAllTheTime(s) ==
    Abs(s.scale[1] - s.scale[2]) <= (s.scale[2] - 1) \div SCALE_ERROR_LIMIT_INV

\* IsMonitoredAtTheSameTime looking at the group only
IsMonitoredAtTheSameTime_GroupOnly(s, other) == s.group_id = other.group_id

IsMonitoredAtTheSameTime(s, other) ==
    IF s.group_id = other.group_id THEN TRUE
    ELSE IsMonitoredAllTheTime(s) /\ IsMonitoredAllTheTime(other)

Name(s) ==
    IF s.modifier = S_empty THEN s.type_name
    ELSE s.type_name \o <<":">> \o s.modifier

\* s.insert(s.begin() + i, ',')
InsertComma(s, i) == SubSeq(s, 1, i) \o <<",">> \o SubSeq(s, i + 1, Len(s))

\* GroupLoop with j left at 0 after an insertion, the ++j of the loop forgotten
RECURSIVE GroupLoop_NoIncrement(_, _, _)
GroupLoop_NoIncrement(s, i, j) ==
    IF i > 0
    THEN IF j = 3 THEN GroupLoop_NoIncrement(InsertComma(s, i), i - 1, 0)
                  ELSE GroupLoop_NoIncrement(s, i - 1, j + 1)
    ELSE s

\* for (size_t i = s.size() - 1, j = 1; i > 0; --i, ++j)
RECURSIVE GroupLoop(_, _, _)
GroupLoop(s, i, j) ==
    IF i > 0
    THEN IF j = 3 THEN GroupLoop(InsertComma(s, i), i - 1, 1)
                  ELSE GroupLoop(s, i - 1, j + 1)
    ELSE s

ReadableCountValue(type_name, count, csv) ==
    IF type_name = S_cpu_clock \/ type_name = S_task_clock
    THEN FormatFixed(count, 6) \o <<"(", "m", "s", ")">>
    ELSE LET s == ToDigits(count)
         IN  IF csv THEN s ELSE GroupLoop(s, Len(s) - 1, 1)

CounterSummary(type_name, modifier, group_id, count, scale, auto_generated, csv) ==
    [type_name |-> type_name, modifier |-> modifier, group_id |-> group_id,
     count |-> count, scale |-> scale,
     readable_count |-> ReadableCountValue(type_name, count, csv),
     comment |-> S_empty, auto_generated |-> auto_generated]

-----------------------------------------------------------------------------
(* class CounterSummaries *)

AddSummary(summaries, summary) == Append(summaries, summary)

\* The index of the first summary with this type_name and modifier; 0 is nullptr.
FindSummary(summaries, type_name, modifier) ==
    LET hits == {i \in 1..Len(summaries) :
                    /\ summaries[i].type_name = type_name
                    /\ summaries[i].modifier = modifier}
    IN  IF hits = {} THEN 0 ELSE CHOOSE i \in hits : \A j \in hits : i <= j

\* AutoGenerateStep without the check that no combined summary exists yet
AutoGenerateStep_NoExistenceCheck(summaries, i, csv) ==
    LET s == summaries[i]
        other == FindSummary(summaries, s.type_name, S_k)
    IN  IF /\ s.modifier = S_u
           /\ other # 0
           /\ IsMonitoredAtTheSameTime(summaries[other], s)
        THEN AddSummary(summaries,
                        CounterSummary(s.type_name, S_empty, s.group_id,
                                       s.count + summaries[other].count,
                                       s.scale, TRUE, csv))
        ELSE summaries

\* One iteration of the loop body for s = summaries_[i]
AutoGenerateStep(summaries, i, csv) ==
    LET s == summaries[i]
        other == FindSummary(summaries, s.type_name, S_k)
    IN  IF /\ s.modifier = S_u
           /\ other # 0
           /\ IsMonitoredAtTheSameTime(summaries[other], s)
           /\ FindSummary(summaries, s.type_name, S_empty) = 0
        THEN AddSummary(summaries,
                        CounterSummary(s.type_name, S_empty, s.group_id,
                                       s.count + summaries[other].count,
                                       s.scale, TRUE, csv))
        ELSE summaries

\* for (size_t i = 0; i < summaries_.size(); ++i), i counted from 1 here.
\* (`next` is bound rather than passed as an expression so that TLC computes
\* the vector after each iteration once.)
RECURSIVE AutoGenerateLoop(_, _, _)
AutoGenerateLoop(summaries, i, csv) ==
    IF i <= Len(summaries)
    THEN CHOOSE result \in {AutoGenerateLoop(next, i + 1, csv) :
                               next \in {AutoGenerateStep(summaries, i, csv)}} : TRUE
    ELSE summaries

AutoGenerateSummaries(summaries, csv) == AutoGenerateLoop(summaries, 1, csv)

G_UNIT == 1000000000            \* 1e9
M_UNIT == 1000000               \* 1e6
K_UNIT == 1000                  \* 1e3

\* count / (duration_in_sec / scale) as the fraction RateNum / RateDen, in
\* events per millisecond (duration is in milliseconds)
RateNum(s) == s.count * s.scale[1]
RateDen(s, duration) == s.scale[2] * duration

\* a > k * b for b > 0, without forming the product
ExceedsProduct(a, k, b) == a \div b > k \/ (a \div b = k /\ a % b > 0)

\* rate > unit, for unit a multiple of 1000 events per second
RateExceeds(s, duration, unit) ==
    ExceedsProduct(RateNum(s), unit \div 1000, RateDen(s, duration))

\* StringPrintf("%.3lf%c<unit>/sec", rate / unit, sap_mid)
RateComment(s, duration, unit, sap_mid, prefix) ==
    FormatFixed(IF unit = 1
                THEN DivFixed(RateNum(s) * 1000, RateDen(s, duration), 3)
                ELSE DivFixed(RateNum(s), RateDen(s, duration) * (unit \div 1000), 3),
                3)
    \o <<sap_mid>> \o prefix \o <<"/", "s", "e", "c">>

\* FallbackComment with >= in place of > in the three comparisons
FallbackComment_AtLeast(s, duration, sap_mid) ==
    IF RateNum(s) \div RateDen(s, duration) >= G_UNIT \div 1000
    THEN RateComment(s, duration, G_UNIT, sap_mid, <<"G">>)
    ELSE IF RateNum(s) \div RateDen(s, duration) >= M_UNIT \div 1000
    THEN RateComment(s, duration, M_UNIT, sap_mid, <<"M">>)
    ELSE IF RateNum(s) \div RateDen(s, duration) >= K_UNIT \div 1000
    THEN RateComment(s, duration, K_UNIT, sap_mid, <<"K">>)
    ELSE RateComment(s, duration, 1, sap_mid, <<>>)

\* Lines 243-253: the rule every summary no earlier rule answered falls to
FallbackComment(s, duration, sap_mid) ==
    IF RateExceeds(s, duration, G_UNIT)
    THEN RateComment(s, duration, G_UNIT, sap_mid, <<"G">>)
    ELSE IF RateExceeds(s, duration, M_UNIT)
    THEN RateComment(s, duration, M_UNIT, sap_mid, <<"M">>)
    ELSE IF RateExceeds(s, duration, K_UNIT)
    THEN RateComment(s, duration, K_UNIT, sap_mid, <<"K">>)
    ELSE RateComment(s, duration, 1, sap_mid, <<>>)

\* The reference event of a "-misses" event
OtherName(type_name) ==
    IF type_name = S_cache_misses THEN S_cache_references
    ELSE IF type_name = S_branch_misses THEN S_branch_instructions
    ELSE SubSeq(type_name, 1, Len(type_name) - Len(S_misses)) \o <<"s">>

\* CpiOther without the IsMonitoredAtTheSameTime test
CpiOther_NoSameTimeCheck(summaries, s) ==
    IF s.type_name = S_instructions /\ s.count # 0
    THEN FindSummary(summaries, S_cpu_cycles, s.modifier)
    ELSE 0

\* Whether the "instructions" rule (lines 217-224) answers, and with which summary
CpiOther(summaries, s) ==
    IF s.type_name = S_instructions /\ s.count # 0
    THEN LET other == FindSummary(summaries, S_cpu_cycles, s.modifier)
         IN  IF other # 0 /\ IsMonitoredAtTheSameTime(summaries[other], s)
             THEN other ELSE 0
    ELSE 0

\* Whether the "-misses" rule (lines 225-242) answers, and with which summary
MissOther(summaries, s) ==
    IF EndsWith(s.type_name, S_misses)
    THEN LET other == FindSummary(summaries, OtherName(s.type_name), s.modifier)
         IN  IF /\ other # 0
                /\ IsMonitoredAtTheSameTime(summaries[other], s)
                /\ summaries[other].count # 0
             THEN other ELSE 0
    ELSE 0

\* Which rule of GetCommentForSummary answers for s
CommentRule(summaries, s) ==
    IF s.type_name = S_task_clock THEN "cpus used"
    ELSE IF s.type_name = S_cpu_clock THEN "empty"
    ELSE IF s.type_name = S_cpu_cycles THEN "GHz"
    ELSE IF CpiOther(summaries, s) # 0 THEN "cycles per instruction"
    ELSE IF MissOther(summaries, s) # 0 THEN "miss rate"
    ELSE "rate"

GetCommentForSummary(summaries, s, duration, csv) ==
    LET sap_mid == IF csv THEN "," ELSE " "
        rule == CommentRule(summaries, s)
    IN  CASE rule = "cpus used" ->
               \* run_sec / (duration_in_sec / scale), run_sec = count / 1e9:
               \* in millionths, count * scale / duration with duration in ms
               FormatFixed(DivFixed(RateNum(s), RateDen(s, duration), 0), 6)
               \o <<sap_mid, "c", "p", "u", "s", " ", "u", "s", "e", "d">>
          [] rule = "empty" -> S_empty
          [] rule = "GHz" ->
               \* hz / 1e9, hz = count / (duration_in_sec / scale): in millionths,
               \* count * scale / duration with duration in ms
               FormatFixed(DivFixed(RateNum(s), RateDen(s, duration), 0), 6)
               \o <<sap_mid, "G", "H", "z">>
          [] rule = "cycles per instruction" ->
               FormatFixed(DivFixed(summaries[CpiOther(summaries, s)].count,
                                    s.count, 6), 6)
               \o <<sap_mid, "c", "y", "c", "l", "e", "s", " ", "p", "e", "r", " ",
                    "i", "n", "s", "t", "r", "u", "c", "t", "i", "o", "n">>
          [] rule = "miss rate" ->
               FormatFixed(DivFixed(s.count * 100,
                                    summaries[MissOther(summaries, s)].count, 6), 6)
               \o <<"%", sap_mid, "m", "i", "s", "s", " ", "r", "a", "t", "e">>
          [] OTHER -> FallbackComment(s, duration, sap_mid)

GenerateComments(summaries, duration, csv) ==
    [i \in 1..Len(summaries) |->
        [summaries[i] EXCEPT
            !.comment = GetCommentForSummary(summaries, summaries[i], duration, csv)]]

\* One row per summary: the fields fprintf is given (column padding left out)
Show(summaries) ==
    [i \in 1..Len(summaries) |->
        [readable_count |-> summaries[i].readable_count,
         name |-> Name(summaries[i]),
         comment |-> summaries[i].comment,
         \* "(%.0lf%%)" of 1.0 / scale * 100
         percent |-> DivFixed(100 * summaries[i].scale[2], summaries[i].scale[1], 0),
         generated |-> summaries[i].auto_generated]]

-----------------------------------------------------------------------------
(* StatCommand::ShowCounters *)

\* SumCounters with the time_running test left out
RECURSIVE SumCounters_NoFilter(_, _, _)
SumCounters_NoFilter(infos, i, acc) ==
    IF i > Len(infos) THEN acc
    ELSE SumCounters_NoFilter(infos, i + 1,
            [value_sum |-> acc.value_sum + infos[i].value,
             time_enabled_sum |-> acc.time_enabled_sum + infos[i].time_enabled,
             time_running_sum |-> acc.time_running_sum + infos[i].time_running])

\* Lines 571-582: the sums over the readouts whose time_running is not 0
RECURSIVE SumCounters(_, _, _)
SumCounters(infos, i, acc) ==
    IF i > Len(infos) THEN acc
    ELSE SumCounters(infos, i + 1,
            IF infos[i].time_running # 0
            THEN [value_sum |-> acc.value_sum + infos[i].value,
                  time_enabled_sum |-> acc.time_enabled_sum + infos[i].time_enabled,
                  time_running_sum |-> acc.time_running_sum + infos[i].time_running]
            ELSE acc)

ZeroSums == [value_sum |-> 0, time_enabled_sum |-> 0, time_running_sum |-> 0]

\* Lines 583-586
ScaleOf(sums) ==
    IF sums.time_running_sum < sums.time_enabled_sum /\ sums.time_running_sum # 0
    THEN <<sums.time_enabled_sum, sums.time_running_sum>>
    ELSE ONE

\* Lines 570-591: one summary per CountersInfo
SummaryOf(counters_info, csv) ==
    LET sums == SumCounters(counters_info.counters, 1, ZeroSums)
    IN  CounterSummary(counters_info.type_name, counters_info.modifier,
                       counters_info.group_id, sums.value_sum, ScaleOf(sums),
                       FALSE, csv)

Aggregate(cs, csv) == [i \in 1..Len(cs) |-> SummaryOf(cs[i], csv)]

\* Lines 569-594: the summaries ShowCounters shows
FinalSummaries(cs, duration, csv) ==
    CHOOSE result \in
        {GenerateComments(generated, duration, csv) :
            generated \in {AutoGenerateSummaries(aggregated, csv) :
                              aggregated \in {Aggregate(cs, csv)}}} : TRUE

\* The raw readouts --verbose dumps, lines 546-567
VerboseDump(cs) ==
    [i \in 1..Len(cs) |-> [name |-> cs[i].type_name, counters |-> cs[i].counters]]

\* Everything ShowCounters writes to fp when fopen succeeded; `summaries` are
\* the summaries after GenerateComments
ReportOf(cs, summaries, duration, csv, verbose) ==
    [header |-> IF csv THEN "Performance counter statistics,"
                       ELSE "Performance counter statistics:",
     verbose |-> IF verbose THEN VerboseDump(cs) ELSE <<>>,
     rows |-> Show(summaries),
     total |-> duration]

NoReport == [header |-> "", verbose |-> <<>>, rows |-> <<>>, total |-> 0]

-----------------------------------------------------------------------------
(* Inputs of StatCommand::Run *)

MaxSleeps == 2

Signals == {"SIGCHLD", "SIGINT", "SIGTERM"}

TidChoices == {{}, {"t1"}, {"t1", "t2"}}        \* -p / -t
CpuChoices == {{}, {0}, {0, 1}}                 \* --cpu

\* The command line as ParseOptions sees it, and IsRoot()
ArgChoices ==
    [a : BOOLEAN, tids : TidChoices, cpus : CpuChoices, root : BOOLEAN,
     command : BOOLEAN, duration : BOOLEAN, csv : BOOLEAN, verbose : BOOLEAN,
     o : BOOLEAN]

NoArgs ==
    [a |-> FALSE, tids |-> {}, cpus |-> {}, root |-> FALSE, command |-> FALSE,
     duration |-> FALSE, csv |-> FALSE, verbose |-> FALSE, o |-> FALSE]

Reading(v, e, r) == [value |-> v, time_enabled |-> e, time_running |-> r]

Selection(t, m, g, cs) ==
    [type_name |-> t, modifier |-> m, group_id |-> g, counters |-> cs]

\* What ReadCounters may return in a run
RunCounterChoices ==
    { <<Selection(S_page_faults, S_empty, 0, <<Reading(7, 10, 10)>>)>>,
      <<Selection(S_branch_misses, S_u, 0, <<Reading(30, 10, 10), Reading(4, 10, 0)>>),
        Selection(S_branch_misses, S_k, 0, <<Reading(20, 10, 10)>>)>>,
      <<Selection(S_cpu_cycles, S_empty, 0, <<Reading(2000, 10, 5)>>),
        Selection(S_instructions, S_empty, 1, <<Reading(1000, 10, 5)>>),
        Selection(S_task_clock, S_empty, 2, <<Reading(1000000, 10, 10)>>)>> }

DurationChoices == {1, 1000}        \* end_time - start_time, in milliseconds

-----------------------------------------------------------------------------
(* signal_handler and StatCommand::StatCommand *)

Init ==
    /\ pc = "check"
    /\ signaled = FALSE
    /\ lastSignal = "none"
    /\ system_wide_collection_ = FALSE
    /\ monitored_threads_ = {}
    /\ cpus_ = {}
    /\ csv_ = FALSE
    /\ verbose_mode_ = FALSE
    /\ output_filename_ = FALSE
    /\ workload = "none"
    /\ opened = "none"
    /\ openedTarget = [threads |-> {}, cpus |-> {}]
    /\ readCalls = 0
    /\ counters = <<>>
    /\ duration_ms = 0
    /\ summaries_ = <<>>
    /\ report = NoReport
    /\ ret = "none"
    /\ failure = "none"
    /\ sleeps = 0
    /\ args = NoArgs
    /\ runs = 0
    /\ before = <<>>

\* The handler runs between any two steps of the main thread while the process
\* lives; SIGCHLD needs a child, which exists once the workload is created.
SignalHandler(sig) ==
    /\ pc # "done"
    /\ sig = "SIGCHLD" => workload # "none"
    /\ signaled' = TRUE
    /\ lastSignal' = sig
    /\ UNCHANGED <<pc, system_wide_collection_, monitored_threads_, cpus_, csv_,
                   verbose_mode_, output_filename_, workload, opened, openedTarget,
                   readCalls, counters, duration_ms, summaries_, report, ret,
                   failure, sleeps, args, runs, before>>

-----------------------------------------------------------------------------
(* StatCommand::Run *)

\* return false
Fail(why) ==
    /\ pc' = "done"
    /\ ret' = "false"
    /\ failure' = why

\* Lines 328-330
CheckPerfEventLimit ==
    /\ pc = "check"
    /\ \E ok \in BOOLEAN :
          IF ok THEN pc' = "parse" /\ UNCHANGED <<ret, failure>>
                ELSE Fail("perf_event_limit")
    /\ UNCHANGED <<signaled, lastSignal, system_wide_collection_, monitored_threads_,
                   cpus_, csv_, verbose_mode_, output_filename_, workload, opened,
                   openedTarget, readCalls, counters, duration_ms, summaries_,
                   report, sleeps, args, runs, before>>

\* non_option_args after ParseOptions: the command, or the sleep --duration
\* is rewritten into (lines 488-501)
WorkloadArgs(in) ==
    IF in.duration THEN <<"sleep", "duration">>
    ELSE IF in.command THEN <<"command">> ELSE <<>>

\* ParseOptionsError without the IsRoot() check
ParseOptionsError_NoRootCheck(in) ==
    IF in.a /\ in.tids # {} THEN "conflict"
    ELSE IF in.duration /\ in.command THEN "duration_with_command"
    ELSE "none"

\* Why ParseOptions returns false once the option loop has passed, or "none"
ParseOptionsError(in) ==
    IF in.a /\ in.tids # {} THEN "conflict"
    ELSE IF in.a /\ ~in.root THEN "not_root"
    ELSE IF in.duration /\ in.command THEN "duration_with_command"
    ELSE "none"

\* Lines 334-336: ParseOptions (lines 403-503).  `bad` is the option loop
\* returning false (unknown option, missing or invalid value).
ParseOptions ==
    /\ pc = "parse"
    /\ \E in \in ArgChoices, bad \in BOOLEAN :
          IF bad
          THEN /\ Fail("option")
               /\ UNCHANGED <<system_wide_collection_, monitored_threads_, cpus_,
                              csv_, verbose_mode_, output_filename_, args>>
          ELSE /\ args' = in
               /\ system_wide_collection_' = in.a
               /\ cpus_' = in.cpus
               /\ csv_' = in.csv
               /\ verbose_mode_' = in.verbose
               /\ output_filename_' = in.o
               /\ monitored_threads_' = monitored_threads_ \cup in.tids
               /\ IF ParseOptionsError(in) # "none"
                  THEN Fail(ParseOptionsError(in))
                  ELSE pc' = "events" /\ UNCHANGED <<ret, failure>>
    /\ UNCHANGED <<signaled, lastSignal, workload, opened, openedTarget, readCalls,
                   counters, duration_ms, summaries_, report, sleeps, runs, before>>

\* Lines 337-342: `given` is -e / --group having selected events
SelectEvents ==
    /\ pc = "events"
    /\ \E given \in BOOLEAN, defaults_ok \in BOOLEAN :
          IF given \/ defaults_ok
          THEN pc' = "workload" /\ UNCHANGED <<ret, failure>>
          ELSE Fail("default_events")
    /\ UNCHANGED <<signaled, lastSignal, system_wide_collection_, monitored_threads_,
                   cpus_, csv_, verbose_mode_, output_filename_, workload, opened,
                   openedTarget, readCalls, counters, duration_ms, summaries_,
                   report, sleeps, args, runs, before>>

\* Lines 344-361: create the workload, and take its pid as the monitored thread
\* when nothing else was given
CreateWorkload ==
    /\ pc = "workload"
    /\ \E created \in BOOLEAN :
          LET wanted == WorkloadArgs(args) # <<>>
          IN  IF wanted /\ ~created
              THEN /\ Fail("create_workload")
                   /\ UNCHANGED <<workload, monitored_threads_>>
              ELSE /\ workload' = IF wanted THEN "created" ELSE "none"
                   /\ IF ~system_wide_collection_ /\ monitored_threads_ = {}
                      THEN IF wanted
                           THEN /\ monitored_threads_' = {"workload_pid"}
                                /\ pc' = "open"
                                /\ UNCHANGED <<ret, failure>>
                           ELSE /\ Fail("no_threads")
                                /\ UNCHANGED monitored_threads_
                      ELSE /\ pc' = "open"
                           /\ UNCHANGED <<ret, failure, monitored_threads_>>
    /\ UNCHANGED <<signaled, lastSignal, system_wide_collection_, cpus_, csv_,
                   verbose_mode_, output_filename_, opened, openedTarget, readCalls,
                   counters, duration_ms, summaries_, report, sleeps, args, runs,
                   before>>

\* OpenEventFiles with the result of the open call ignored
OpenEventFiles_IgnoreFailure ==
    /\ pc = "open"
    /\ cpus_' = IF system_wide_collection_ \/ cpus_ # {} THEN cpus_ ELSE {-1}
    /\ \E ok \in BOOLEAN :
          IF ok
          THEN /\ opened' = IF system_wide_collection_ THEN "cpus" ELSE "threads"
               /\ openedTarget' =
                     [threads |-> IF system_wide_collection_ THEN {}
                                  ELSE monitored_threads_,
                      cpus |-> cpus_']
          ELSE UNCHANGED <<opened, openedTarget>>
    /\ pc' = "start"
    /\ UNCHANGED <<ret, failure>>
    /\ UNCHANGED <<signaled, lastSignal, system_wide_collection_, monitored_threads_,
                   csv_, verbose_mode_, output_filename_, workload, readCalls,
                   counters, duration_ms, summaries_, report, sleeps, args, runs,
                   before>>

\* Lines 363-376: `ok` is the collaborator's open succeeding
OpenEventFiles ==
    /\ pc = "open"
    /\ \E ok \in BOOLEAN :
          /\ IF system_wide_collection_
             THEN /\ UNCHANGED cpus_
                  /\ IF ok
                     THEN /\ opened' = "cpus"
                          /\ openedTarget' = [threads |-> {}, cpus |-> cpus_]
                     ELSE UNCHANGED <<opened, openedTarget>>
             ELSE /\ cpus_' = IF cpus_ = {} THEN {-1} ELSE cpus_
                  /\ IF ok
                     THEN /\ opened' = "threads"
                          /\ openedTarget' = [threads |-> monitored_threads_,
                                              cpus |-> cpus_']
                     ELSE UNCHANGED <<opened, openedTarget>>
          /\ IF ok THEN pc' = "start" /\ UNCHANGED <<ret, failure>>
                   ELSE Fail("open")
    /\ UNCHANGED <<signaled, lastSignal, system_wide_collection_, monitored_threads_,
                   csv_, verbose_mode_, output_filename_, workload, readCalls,
                   counters, duration_ms, summaries_, report, sleeps, args, runs,
                   before>>

\* StartWorkload with the flag reset on the way into the wait loop
StartWorkload_ClearsFlag ==
    /\ pc = "start"
    /\ \E ok \in BOOLEAN :
          IF workload # "none" /\ ~ok
          THEN Fail("start") /\ UNCHANGED <<workload, signaled>>
          ELSE /\ workload' = IF workload # "none" THEN "started" ELSE "none"
               /\ signaled' = FALSE
               /\ pc' = "wait"
               /\ UNCHANGED <<ret, failure>>
    /\ UNCHANGED <<lastSignal, system_wide_collection_, monitored_threads_,
                   cpus_, csv_, verbose_mode_, output_filename_, opened, openedTarget,
                   readCalls, counters, duration_ms, summaries_, report, sleeps,
                   args, runs, before>>

\* Lines 379-382: start_time is taken, then the workload is started
StartWorkload ==
    /\ pc = "start"
    /\ \E ok \in BOOLEAN :
          IF workload # "none" /\ ~ok
          THEN Fail("start") /\ UNCHANGED workload
          ELSE /\ workload' = IF workload # "none" THEN "started" ELSE "none"
               /\ pc' = "wait"
               /\ UNCHANGED <<ret, failure>>
    /\ UNCHANGED <<signaled, lastSignal, system_wide_collection_, monitored_threads_,
                   cpus_, csv_, verbose_mode_, output_filename_, opened, openedTarget,
                   readCalls, counters, duration_ms, summaries_, report, sleeps,
                   args, runs, before>>

\* Lines 383-385: the flag is false, sleep(1)
Sleep ==
    /\ pc = "wait"
    /\ ~signaled
    /\ sleeps < MaxSleeps
    /\ sleeps' = sleeps + 1
    /\ UNCHANGED <<pc, signaled, lastSignal, system_wide_collection_,
                   monitored_threads_, cpus_, csv_, verbose_mode_, output_filename_,
                   workload, opened, openedTarget, readCalls, counters, duration_ms,
                   summaries_, report, ret, failure, args, runs, before>>

\* ExitWaitLoop with the loop condition dropped
ExitWaitLoop_NoFlagCheck ==
    /\ pc = "wait"
    /\ pc' = "read"
    /\ duration_ms' \in DurationChoices
    /\ UNCHANGED <<signaled, lastSignal, system_wide_collection_, monitored_threads_,
                   cpus_, csv_, verbose_mode_, output_filename_, workload, opened,
                   openedTarget, readCalls, counters, summaries_, report, ret,
                   failure, sleeps, args, runs, before>>

\* ExitWaitLoop ending the window for the child's exit only
ExitWaitLoop_ChildOnly ==
    /\ pc = "wait"
    /\ signaled /\ lastSignal = "SIGCHLD"
    /\ pc' = "read"
    /\ duration_ms' \in DurationChoices
    /\ UNCHANGED <<signaled, lastSignal, system_wide_collection_, monitored_threads_,
                   cpus_, csv_, verbose_mode_, output_filename_, workload, opened,
                   openedTarget, readCalls, counters, summaries_, report, ret,
                   failure, sleeps, args, runs, before>>

\* Lines 383-386: the flag is true, the loop ends and end_time is taken
ExitWaitLoop ==
    /\ pc = "wait"
    /\ signaled
    /\ pc' = "read"
    /\ duration_ms' \in DurationChoices
    /\ UNCHANGED <<signaled, lastSignal, system_wide_collection_, monitored_threads_,
                   cpus_, csv_, verbose_mode_, output_filename_, workload, opened,
                   openedTarget, readCalls, counters, summaries_, report, ret,
                   failure, sleeps, args, runs, before>>

\* ReadCounters with a failed read tried again
ReadCounters_Retry ==
    /\ pc = "read"
    /\ readCalls' = readCalls + 1
    /\ \E ok \in BOOLEAN :
          IF ok
          THEN /\ counters' \in RunCounterChoices
               /\ pc' = "show"
          ELSE UNCHANGED <<pc, counters>>
    /\ UNCHANGED <<ret, failure>>
    /\ UNCHANGED <<signaled, lastSignal, system_wide_collection_, monitored_threads_,
                   cpus_, csv_, verbose_mode_, output_filename_, workload, opened,
                   openedTarget, duration_ms, summaries_, report, sleeps, args, runs,
                   before>>

\* Lines 389-392
ReadCounters ==
    /\ pc = "read"
    /\ readCalls' = readCalls + 1
    /\ \E ok \in BOOLEAN :
          IF ok
          THEN /\ counters' \in RunCounterChoices
               /\ pc' = "show"
               /\ UNCHANGED <<ret, failure>>
          ELSE Fail("read") /\ UNCHANGED counters
    /\ UNCHANGED <<signaled, lastSignal, system_wide_collection_, monitored_threads_,
                   cpus_, csv_, verbose_mode_, output_filename_, workload, opened,
                   openedTarget, duration_ms, summaries_, report, sleeps, args, runs,
                   before>>

\* Lines 397-400 and ShowCounters (lines 528-601): `fopen_ok` is fopen of the
\* -o file succeeding
ShowCounters ==
    /\ pc = "show"
    /\ \E fopen_ok \in BOOLEAN :
          IF output_filename_ /\ ~fopen_ok
          THEN Fail("fopen") /\ UNCHANGED <<summaries_, report>>
          ELSE /\ \E final \in {FinalSummaries(counters, duration_ms, csv_)} :
                     /\ summaries_' = final
                     /\ report' = ReportOf(counters, final, duration_ms, csv_,
                                           verbose_mode_)
               /\ pc' = "done"
               /\ ret' = "true"
               /\ UNCHANGED failure
    /\ UNCHANGED <<signaled, lastSignal, system_wide_collection_, monitored_threads_,
                   cpus_, csv_, verbose_mode_, output_filename_, workload, opened,
                   openedTarget, readCalls, counters, duration_ms, sleeps, args,
                   runs, before>>

Run ==
    \/ CheckPerfEventLimit
    \/ ParseOptions
    \/ SelectEvents
    \/ CreateWorkload
    \/ OpenEventFiles
    \/ StartWorkload
    \/ Sleep
    \/ ExitWaitLoop
    \/ ReadCounters
    \/ ShowCounters

Next ==
    \/ \E sig \in Signals : SignalHandler(sig)
    \/ Run

Spec == Init /\ [][Next]_vars

\* The main thread keeps running until Run returns, and a sleep ends.
FairSpec == Spec /\ WF_vars(Run)

-----------------------------------------------------------------------------
(* Claims about StatCommand::Run *)

Reported == report # NoReport

\* C1: a run in which no termination signal is delivered never reaches the
\* report stage: whenever ReadCounters has been called or ShowCounters has
\* written output (or the main thread is past the wait loop), `signaled` is
\* true; and while the flag is false a step leaves the controller in the loop.
C1_NoSignalNoReport ==
    /\ []((readCalls > 0 \/ Reported \/ pc \in {"read", "show"}) => signaled)
    /\ [][(pc = "wait" /\ ~signaled) => pc' = "wait"]_vars

\* The controller blocked in the loop, having slept, no signal delivered
C1_Witness == pc = "wait" /\ ~signaled /\ sleeps = MaxSleeps /\ lastSignal = "none"

\* C2 as stated: once a signal has ended the window, the final report is
\* always produced and the run returns success.
C2_Original ==
    (pc = "done" /\ readCalls > 0) => (ret = "true" /\ Reported)

\* C2 amended: a signal delivered while the controller waits ends the window
\* and Run returns; a run that left the window returns success with the final
\* report exactly when the read and the opening of the report file succeeded,
\* and failure with no report otherwise; the report is a function of the
\* counters, the duration and the options, the same for all three signals.
C2_SignalEndsWindow ==
    /\ [](pc = "done" /\ readCalls > 0 =>
            /\ lastSignal \in Signals
            /\ (ret = "true") = Reported
            /\ (ret = "true") = (failure = "none")
            /\ (ret = "false") = (failure \in {"read", "fopen"})
            /\ failure = "fopen" => output_filename_
            /\ Reported =>
                 /\ summaries_ = FinalSummaries(counters, duration_ms, csv_)
                 /\ report = ReportOf(counters, summaries_, duration_ms, csv_,
                                      verbose_mode_))
    /\ \A sig \in Signals :
          (pc = "wait" /\ lastSignal = sig) ~> (pc = "done" /\ readCalls = 1)

\* A window ended by an interrupt, reported with success
C2_Witness ==
    pc = "done" /\ lastSignal = "SIGINT" /\ ret = "true" /\ Reported /\ sleeps > 0

\* C3: the counters are read at most once, and only after the wait loop has
\* seen the flag; the report is written at most once, after that one read; a
\* failed read ends the run in failure with nothing written and no second read.
C3_ReadOnce ==
    /\ readCalls <= 1
    /\ readCalls = 1 => (signaled /\ pc \in {"show", "done"})
    /\ pc = "show" => readCalls = 1
    /\ Reported => (readCalls = 1 /\ pc = "done" /\ ret = "true")
    /\ failure = "read" =>
          (pc = "done" /\ ret = "false" /\ ~Reported /\ readCalls = 1
           /\ summaries_ = <<>>)

\* A run whose read failed
C3_Witness == failure = "read" /\ pc = "done" /\ readCalls = 1

\* C4: the workload is started only after the counters were opened; a failed
\* open ends the run in failure with the workload not started, the wait loop
\* not entered, no read and no report.
C4_OpenBeforeStart ==
    /\ workload = "started" => opened # "none"
    /\ pc \in {"start", "wait", "read", "show"} => opened # "none"
    /\ opened = "cpus" => system_wide_collection_
    /\ opened = "threads" => ~system_wide_collection_
    /\ failure = "open" =>
          (pc = "done" /\ ret = "false" /\ workload # "started" /\ opened = "none"
           /\ sleeps = 0 /\ readCalls = 0 /\ ~Reported)

\* A failed open with a workload created and waiting to be started
C4_Witness == failure = "open" /\ workload = "created"

\* Target resolution (lines 476-486 and 352-376) has given its answer
TargetDecided ==
    \/ failure \in {"conflict", "not_root", "no_threads"}
    \/ opened # "none"

\* C8 as stated: resolution fails exactly for -a with ids and for -a without
\* privilege; otherwise the target is all CPUs with all threads, or the given
\* CPUs (-1 when not set) with the given threads.
C8_Original ==
    TargetDecided =>
        IF args.a /\ (args.tids # {} \/ ~args.root)
        THEN failure \in {"conflict", "not_root"}
        ELSE /\ failure \notin {"conflict", "not_root", "no_threads"}
             /\ opened # "none"
             /\ openedTarget =
                  IF args.a THEN [threads |-> {}, cpus |-> {}]
                  ELSE [threads |-> args.tids,
                        cpus |-> IF args.cpus = {} THEN {-1} ELSE args.cpus]

\* C8 amended: resolution fails for -a with ids, for -a without privilege, and
\* when neither -a nor ids nor a workload were given; otherwise the target is,
\* system-wide, all threads on the given CPU list (left empty when not set),
\* and else the given threads, or the workload's pid when none were given, on
\* the given CPUs, -1 when not set.
C8_TargetResolution ==
    /\ (pc \notin {"check", "parse"} /\ failure # "option" /\ args.a
        /\ (args.tids # {} \/ ~args.root)) =>
          (failure = (IF args.tids # {} THEN "conflict" ELSE "not_root")
           /\ pc = "done" /\ ret = "false" /\ opened = "none")
    /\ failure \in {"conflict", "not_root"} =>
          (args.a /\ (args.tids # {} \/ ~args.root))
    /\ failure = "no_threads" =>
          (~args.a /\ args.tids = {} /\ WorkloadArgs(args) = <<>> /\ opened = "none")
    /\ pc \in {"open", "start", "wait", "read", "show"} =>
          (args.a \/ args.tids # {} \/ WorkloadArgs(args) # <<>>)
    /\ opened # "none" =>
          openedTarget =
             IF args.a THEN [threads |-> {}, cpus |-> args.cpus]
             ELSE [threads |-> IF args.tids # {} THEN args.tids
                               ELSE {"workload_pid"},
                   cpus |-> IF args.cpus = {} THEN {-1} ELSE args.cpus]

\* Given threads with no CPU list: opened on "any CPU"
C8_Witness ==
    opened = "threads" /\ args.tids = {"t1"} /\ args.cpus = {}
    /\ openedTarget = [threads |-> {"t1"}, cpus |-> {-1}]

-----------------------------------------------------------------------------
(* The Counter Aggregator on its own: lines 569-591 of ShowCounters applied   *)
(* to the readouts of one event selection.                                    *)

MaxReadouts == 3

ReadingChoices ==
    {Reading(v, e, r) : v \in {2, 5}, e \in {0, 1, 3}, r \in {0, 1, 3}}

ReadingLists == UNION {[1..n -> ReadingChoices] : n \in 0..MaxReadouts}

InitAgg ==
    /\ pc = "aggregate"
    /\ \E rs \in ReadingLists, m \in {S_empty, S_u} :
          counters = <<Selection(S_page_faults, m, 0, rs)>>
    /\ csv_ \in BOOLEAN
    /\ signaled = FALSE
    /\ lastSignal = "none"
    /\ system_wide_collection_ = FALSE
    /\ monitored_threads_ = {}
    /\ cpus_ = {}
    /\ verbose_mode_ = FALSE
    /\ output_filename_ = FALSE
    /\ workload = "none"
    /\ opened = "none"
    /\ openedTarget = [threads |-> {}, cpus |-> {}]
    /\ readCalls = 0
    /\ duration_ms = 0
    /\ summaries_ = <<>>
    /\ report = NoReport
    /\ ret = "none"
    /\ failure = "none"
    /\ sleeps = 0
    /\ args = NoArgs
    /\ runs = 0
    /\ before = <<>>

\* The loop of lines 570-591
AggregateCounters ==
    /\ pc = "aggregate"
    /\ summaries_' = Aggregate(counters, csv_)
    /\ pc' = "aggregated"
    /\ UNCHANGED <<signaled, lastSignal, system_wide_collection_, monitored_threads_,
                   cpus_, csv_, verbose_mode_, output_filename_, workload, opened,
                   openedTarget, readCalls, counters, duration_ms, report, ret,
                   failure, sleeps, args, runs, before>>

NextAgg == AggregateCounters

SpecAgg == InitAgg /\ [][NextAgg]_vars

\* The sum of the second components of a set of pairs <<index, number>>
RECURSIVE SumPairs(_)
SumPairs(P) ==
    IF P = {} THEN 0
    ELSE LET p == CHOOSE x \in P : TRUE IN p[2] + SumPairs(P \ {p})

RunningNonzero(reading) == reading.time_running # 0

\* C5: with enabled_sum and running_sum taken over the readouts whose running
\* time is nonzero, scale >= 1.0; scale = 1.0 exactly when running_sum >=
\* enabled_sum, and else scale = enabled_sum / running_sum; the count is the sum
\* of those readouts' values; and dropping the readouts with running time 0
\* from the list gives the same summary.
C5_Scale ==
    pc = "aggregated" =>
        LET rs == counters[1].counters
            included == {i \in 1..Len(rs) : rs[i].time_running # 0}
            enabled_sum == SumPairs({<<i, rs[i].time_enabled>> : i \in included})
            running_sum == SumPairs({<<i, rs[i].time_running>> : i \in included})
            value_sum == SumPairs({<<i, rs[i].value>> : i \in included})
            s == summaries_[1]
        IN  /\ Len(summaries_) = 1
            /\ s.scale[2] > 0 /\ s.scale[1] >= s.scale[2]
            /\ (s.scale[1] = s.scale[2]) = (running_sum >= enabled_sum)
            /\ (s.scale = ONE) = (running_sum >= enabled_sum)
            /\ running_sum < enabled_sum => s.scale = <<enabled_sum, running_sum>>
            /\ s.count = value_sum
            /\ ~s.auto_generated
            /\ summaries_ =
                  Aggregate(<<[counters[1] EXCEPT
                                 !.counters = SelectSeq(rs, RunningNonzero)]>>, csv_)

\* A multiplexed event (scale 3.0) one of whose readouts never ran
C5_Witness ==
    /\ pc = "aggregated"
    /\ summaries_[1].scale = <<3, 1>>
    /\ \E i \in 1..Len(counters[1].counters) :
          /\ counters[1].counters[i].time_running = 0
          /\ counters[1].counters[i].time_enabled > 0

-----------------------------------------------------------------------------
(* CounterSummaries::AutoGenerateSummaries on its own, called repeatedly on a *)
(* collection of directly measured summaries.                                 *)

MaxSummaries == 3
MaxRuns == 2

\* What a directly measured summary may be: the event, its group and its scale
\* (1.0, within 1e-5 of 1.0, or multiplexed)
MeasuredChoices ==
    [type_name : {S_branch_misses}, modifier : {S_empty, S_u, S_k},
     group_id : {0, 1}, scale : {ONE, <<1000001, 1000000>>, <<2, 1>>}]
    \cup
    [type_name : {S_page_faults}, modifier : {S_u, S_k},
     group_id : {0}, scale : {ONE, <<2, 1>>}]

MeasuredLists == UNION {[1..n -> MeasuredChoices] : n \in 0..MaxSummaries}

\* The i-th summary counted 10^i events: a sum of two counts names the two.
MeasuredSummaries(ms, csv) ==
    [i \in 1..Len(ms) |->
        CounterSummary(ms[i].type_name, ms[i].modifier, ms[i].group_id,
                       Pow10(i), ms[i].scale, FALSE, csv)]

InitGen ==
    /\ pc = "generate"
    /\ csv_ = FALSE
    /\ \E ms \in MeasuredLists : summaries_ = MeasuredSummaries(ms, csv_)
    /\ runs = 0
    /\ before = <<>>
    /\ signaled = FALSE
    /\ lastSignal = "none"
    /\ system_wide_collection_ = FALSE
    /\ monitored_threads_ = {}
    /\ cpus_ = {}
    /\ verbose_mode_ = FALSE
    /\ output_filename_ = FALSE
    /\ workload = "none"
    /\ opened = "none"
    /\ openedTarget = [threads |-> {}, cpus |-> {}]
    /\ readCalls = 0
    /\ counters = <<>>
    /\ duration_ms = 0
    /\ report = NoReport
    /\ ret = "none"
    /\ failure = "none"
    /\ sleeps = 0
    /\ args = NoArgs

\* summaries.AutoGenerateSummaries()
AutoGenerate ==
    /\ pc = "generate"
    /\ runs < MaxRuns
    /\ before' = summaries_
    /\ summaries_' = AutoGenerateSummaries(summaries_, csv_)
    /\ runs' = runs + 1
    /\ UNCHANGED <<pc, signaled, lastSignal, system_wide_collection_,
                   monitored_threads_, cpus_, csv_, verbose_mode_, output_filename_,
                   workload, opened, openedTarget, readCalls, counters, duration_ms,
                   report, ret, failure, sleeps, args>>

NextGen == AutoGenerate

SpecGen == InitGen /\ [][NextGen]_vars

TypeNames(summaries) == {summaries[i].type_name : i \in 1..Len(summaries)}

\* The positions of the summaries of a type-name with a modifier
Positions(summaries, type_name, modifier) ==
    {i \in 1..Len(summaries) :
        summaries[i].type_name = type_name /\ summaries[i].modifier = modifier}

Least(S) == CHOOSE i \in S : \A j \in S : i <= j

NotGenerated(s) == ~s.auto_generated

\* The directly measured summaries of the collection
Measured == SelectSeq(summaries_, NotGenerated)

\* "Monitored at the same time" as section 3 of the specification defines it
SameTime(a, b) ==
    \/ a.group_id = b.group_id
    \/ /\ Abs(a.scale[1] - a.scale[2]) * SCALE_ERROR_LIMIT_INV < a.scale[2]
       /\ Abs(b.scale[1] - b.scale[2]) * SCALE_ERROR_LIMIT_INV < b.scale[2]

\* The user-only summaries of a type-name that are monitored at the same time
\* as its FIRST kernel-only summary, when no combined summary exists
Combinable(summaries, type_name) ==
    IF \/ Positions(summaries, type_name, S_k) = {}
       \/ Positions(summaries, type_name, S_empty) # {}
    THEN {}
    ELSE {u \in Positions(summaries, type_name, S_u) :
            SameTime(summaries[u],
                     summaries[Least(Positions(summaries, type_name, S_k))])}

\* C6: a second run of AutoGenerateSummaries adds nothing, and after any
\* number of runs there is exactly one synthesized summary, with no modifier,
\* for each type-name that can be combined and none for any other, however
\* many user-only or kernel-only summaries of the type-name there are.
C6_Idempotent ==
    /\ runs >= 2 => summaries_ = before
    /\ runs >= 1 =>
          /\ \A i \in 1..Len(summaries_) :
                summaries_[i].auto_generated => summaries_[i].modifier = S_empty
          /\ \A t \in TypeNames(summaries_) :
                Cardinality({i \in 1..Len(summaries_) :
                               /\ summaries_[i].auto_generated
                               /\ summaries_[i].type_name = t})
                = IF Combinable(Measured, t) # {} THEN 1 ELSE 0

\* Two runs over two user-only summaries and a kernel-only one of one event
C6_Witness ==
    /\ runs = 2
    /\ Len(summaries_) = 4
    /\ summaries_[1].modifier = S_u /\ summaries_[2].modifier = S_u
    /\ summaries_[3].modifier = S_k
    /\ summaries_[4].auto_generated
    /\ TypeNames(summaries_) = {S_branch_misses}

\* The summaries of a type-name that the last run appended
Appended(type_name) ==
    {i \in (Len(before) + 1)..Len(summaries_) : summaries_[i].type_name = type_name}

\* The pairs of a user-only and a kernel-only summary of a type-name that are
\* monitored at the same time
SameTimePairs(summaries, type_name) ==
    {p \in Positions(summaries, type_name, S_u) \X Positions(summaries, type_name, S_k) :
        SameTime(summaries[p[1]], summaries[p[2]])}

-----------------------------------------------------------------------------
(* The CounterSummary constructor on its own: the readable count of one count *)
(* in table mode and in csv mode.                                             *)

MaxDigits == 7

\* The number a string of decimal digits (most significant first) denotes
RECURSIVE DigitsValue(_)
DigitsValue(ds) ==
    IF Len(ds) = 0 THEN 0
    ELSE 10 * DigitsValue(SubSeq(ds, 1, Len(ds) - 1))
         + (CHOOSE d \in 0..9 : DigitChars[d + 1] = ds[Len(ds)])

\* The counts of at most MaxDigits digits among 0, 1 and 9, and two examples
CountChoices ==
    {DigitsValue(ds) :
        ds \in UNION {[1..n -> {"0", "1", "9"}] : n \in 1..MaxDigits}}
    \cup {1234567, 2000000}

InitFmt ==
    /\ pc = "construct"
    /\ \E t \in {S_page_faults, S_task_clock}, c \in CountChoices :
          counters = <<Selection(t, S_empty, 0, <<Reading(c, 1, 1)>>)>>
    /\ csv_ = FALSE
    /\ summaries_ = <<>>
    /\ runs = 0
    /\ before = <<>>
    /\ signaled = FALSE
    /\ lastSignal = "none"
    /\ system_wide_collection_ = FALSE
    /\ monitored_threads_ = {}
    /\ cpus_ = {}
    /\ verbose_mode_ = FALSE
    /\ output_filename_ = FALSE
    /\ workload = "none"
    /\ opened = "none"
    /\ openedTarget = [threads |-> {}, cpus |-> {}]
    /\ readCalls = 0
    /\ duration_ms = 0
    /\ report = NoReport
    /\ ret = "none"
    /\ failure = "none"
    /\ sleeps = 0
    /\ args = NoArgs

\* The summary of the selection built without --csv, then with it
ConstructSummaries ==
    /\ pc = "construct"
    /\ summaries_' = Aggregate(counters, FALSE) \o Aggregate(counters, TRUE)
    /\ pc' = "constructed"
    /\ UNCHANGED <<signaled, lastSignal, system_wide_collection_, monitored_threads_,
                   cpus_, csv_, verbose_mode_, output_filename_, workload, opened,
                   openedTarget, readCalls, counters, duration_ms, report, ret,
                   failure, sleeps, args, runs, before>>

NextFmt == ConstructSummaries

SpecFmt == InitFmt /\ [][NextFmt]_vars

IsDigit(c) == \E d \in 0..9 : DigitChars[d + 1] = c

IsComma(c) == c = ","

NotComma(c) == c # ","

\* C10: for a count of an event that is not a clock, the csv-mode readable
\* count is the count's decimal digit string (digits only, no leading zero,
\* denoting the count); the table-mode one has a ',' exactly before every
\* group of three digits counted from the right, so none in front and none
\* for a count below 1000; and the table-mode string without its separators
\* is the csv-mode string.
C10_ReadableCount ==
    (pc = "constructed" /\ summaries_[1].type_name \notin {S_cpu_clock, S_task_clock}) =>
        LET table == summaries_[1].readable_count
            csv == summaries_[2].readable_count
            count == summaries_[1].count
        IN  /\ count = counters[1].counters[1].value
            /\ Len(csv) >= 1
            /\ \A i \in 1..Len(csv) : IsDigit(csv[i])
            /\ (csv[1] = "0") => (Len(csv) = 1)
            /\ DigitsValue(csv) = count
            /\ SelectSeq(table, NotComma) = csv
            /\ Len(table) = Len(csv) + (Len(csv) - 1) \div 3
            /\ \A i \in 1..Len(table) :
                  IsComma(table[i]) = ((Len(table) - i + 1) % 4 = 0)
            /\ count < 1000 => table = csv
            /\ ~IsComma(table[1])

\* The example of the specification: 1234567 is shown as 1,234,567
C10_Witness ==
    /\ pc = "constructed"
    /\ summaries_[1].type_name = S_page_faults
    /\ summaries_[1].count = 1234567
    /\ summaries_[1].readable_count = <<"1", ",", "2", "3", "4", ",", "5", "6", "7">>
    /\ summaries_[2].readable_count = <<"1", "2", "3", "4", "5", "6", "7">>

-----------------------------------------------------------------------------
(* CounterSummaries::GenerateComments on its own, on a collection of one      *)
(* summary, or of one summary and the summary its comment refers to.          *)

RateCountChoices ==
    {0, 1, 999, 1000, 1001, 999999, 1000000, 1000001, 5000000, 999999999,
     1000000000, 1000000001}

\* The second summary of the collection: absent, or a cpu-cycles or
\* branch-instructions summary in group 0
CompanionChoices ==
    {<<>>,
     <<[type_name |-> S_cpu_cycles, count |-> 2000]>>,
     <<[type_name |-> S_branch_instructions, count |-> 1000]>>}

InitRate ==
    /\ pc = "comment"
    /\ csv_ \in BOOLEAN
    /\ duration_ms \in {1, 2, 1000}
    /\ \E t \in {S_page_faults, S_instructions, S_branch_misses},
          c \in RateCountChoices, sc \in {ONE, <<3, 2>>}, g \in {0, 1},
          companion \in CompanionChoices :
          \* the products and quotients below stay inside TLC's 32-bit integers
          /\ c <= 2147483647 \div sc[1]
          /\ companion # <<>> => c <= 1001
          /\ summaries_ =
                <<CounterSummary(t, S_empty, g, c, sc, FALSE, csv_)>> \o
                [i \in 1..Len(companion) |->
                    CounterSummary(companion[i].type_name, S_empty, 0,
                                   companion[i].count, ONE, FALSE, csv_)]
    /\ counters = <<>>
    /\ runs = 0
    /\ before = <<>>
    /\ signaled = FALSE
    /\ lastSignal = "none"
    /\ system_wide_collection_ = FALSE
    /\ monitored_threads_ = {}
    /\ cpus_ = {}
    /\ verbose_mode_ = FALSE
    /\ output_filename_ = FALSE
    /\ workload = "none"
    /\ opened = "none"
    /\ openedTarget = [threads |-> {}, cpus |-> {}]
    /\ readCalls = 0
    /\ report = NoReport
    /\ ret = "none"
    /\ failure = "none"
    /\ sleeps = 0
    /\ args = NoArgs

\* summaries.GenerateComments(duration_in_sec)
GenerateCommentsStep ==
    /\ pc = "comment"
    /\ before' = summaries_
    /\ summaries_' = GenerateComments(summaries_, duration_ms, csv_)
    /\ pc' = "commented"
    /\ UNCHANGED <<signaled, lastSignal, system_wide_collection_, monitored_threads_,
                   cpus_, csv_, verbose_mode_, output_filename_, workload, opened,
                   openedTarget, readCalls, counters, duration_ms, report, ret,
                   failure, sleeps, args, runs>>

NextRate == GenerateCommentsStep

SpecRate == InitRate /\ [][NextRate]_vars

\* rate = count / (duration / scale), in events per millisecond, is the
\* fraction RateA / RateB
RateA(s) == s.count * s.scale[1]
RateB(s) == s.scale[2] * duration_ms

\* rate >= unit and rate > unit, for a unit of 1000 * kilo events per second
RateAtLeast(s, kilo) == RateA(s) \div RateB(s) >= kilo
RateAbove(s, kilo) ==
    \/ RateA(s) \div RateB(s) > kilo
    \/ RateA(s) \div RateB(s) = kilo /\ RateA(s) % RateB(s) # 0

\* The unit of the largest prefix whose threshold the rate reaches (>=) ...
UnitReached(s) ==
    IF RateAtLeast(s, 1000000) THEN 1000000000
    ELSE IF RateAtLeast(s, 1000) THEN 1000000
    ELSE IF RateAtLeast(s, 1) THEN 1000
    ELSE 1

\* ... and of the largest prefix whose threshold the rate exceeds (>)
UnitExceeded(s) ==
    IF RateAbove(s, 1000000) THEN 1000000000
    ELSE IF RateAbove(s, 1000) THEN 1000000
    ELSE IF RateAbove(s, 1) THEN 1000
    ELSE 1

UnitPrefix(unit) ==
    CASE unit = 1000000000 -> <<"G">>
      [] unit = 1000000 -> <<"M">>
      [] unit = 1000 -> <<"K">>
      [] OTHER -> <<>>

\* "<rate / unit, three decimals><sep><prefix>/sec"
RateText(s, unit, sep) ==
    FormatFixed(IF unit = 1 THEN DivFixed(RateA(s) * 1000, RateB(s), 3)
                ELSE DivFixed(RateA(s), RateB(s) * (unit \div 1000), 3), 3)
    \o <<sep>> \o UnitPrefix(unit) \o <<"/", "s", "e", "c">>

FallsBack(i) == CommentRule(summaries_, summaries_[i]) = "rate"

\* C9 as stated: the prefix is G from 1e9 on, M from 1e6 on, K from 1e3 on,
\* and the number is the rate divided by that unit (whatever the character
\* between the number and the unit).
C9_Original ==
    pc = "commented" =>
        \A i \in 1..Len(summaries_) :
            FallsBack(i) =>
                \E sep \in {" ", ","} :
                    summaries_[i].comment =
                        RateText(summaries_[i], UnitReached(summaries_[i]), sep)

\* What the code does at the thresholds (lines 244-250 compare with >): the
\* prefix is G when rate > 1e9, otherwise M when rate > 1e6, otherwise K when
\* rate > 1e3, otherwise none (a rate of exactly 1e9 is printed as
\* 1000.000 M/sec); the number is the rate divided by that unit, with three
\* decimals, followed by a space in table mode and a comma in csv mode, the
\* prefix and "/sec": count 5,000,000 in 1.0 s at scale 1.0 gives
\* "5.000 M/sec".
C9_FallbackRate ==
    pc = "commented" =>
        \A i \in 1..Len(summaries_) :
            FallsBack(i) =>
                /\ summaries_[i].comment =
                      RateText(summaries_[i], UnitExceeded(summaries_[i]),
                               IF csv_ THEN "," ELSE " ")
                /\ (/\ summaries_[i].count = 5000000
                    /\ summaries_[i].scale = ONE
                    /\ duration_ms = 1000
                    /\ ~csv_) =>
                      summaries_[i].comment =
                         <<"5", ".", "0", "0", "0", " ", "M", "/", "s", "e", "c">>

\* A rate of exactly 1e9 events per second, printed with the M prefix
C9_Witness ==
    /\ pc = "commented"
    /\ ~csv_
    /\ duration_ms = 1000
    /\ summaries_[1].type_name = S_page_faults
    /\ summaries_[1].scale = ONE
    /\ summaries_[1].count = 1000000000
    /\ summaries_[1].comment =
          <<"1", "0", "0", "0", ".", "0", "0", "0", " ", "M", "/", "s", "e", "c">>

-----------------------------------------------------------------------------
(* GenerateComments on collections with cross-references: an "instructions"   *)
(* or "-misses" summary followed by summaries of its reference event, which   *)
(* may be missing, of another modifier, in another group, or zero.            *)

MaxRefs == 2

\* A "-misses" event that is neither cache-misses nor branch-misses, and the
\* name line 232 derives for its reference event
S_dcache_load_misses ==
    <<"L","1","-","d","c","a","c","h","e","-","l","o","a","d">> \o S_misses
S_dcache_loads == <<"L","1","-","d","c","a","c","h","e","-","l","o","a","d","s">>

SubjectNames ==
    {S_instructions, S_cache_misses, S_branch_misses, S_dcache_load_misses}

\* The event FindSummary is asked for in lines 218 and 235
ReferenceName(type_name) ==
    IF type_name = S_instructions THEN S_cpu_cycles ELSE OtherName(type_name)

\* What a summary of the collection is made of: modifier, group, count, scale
SubjectChoices ==
    [modifier : {S_empty, S_u}, group_id : {0, 1}, count : {0, 3},
     scale : {ONE, <<3, 2>>}]

ReferenceChoices ==
    [modifier : {S_empty, S_u}, group_id : {0, 1}, count : {0, 7},
     scale : {ONE, <<3, 2>>}]

ReferenceLists ==
    UNION {[1..n -> ReferenceChoices] : n \in 0..MaxRefs}

InitCmt ==
    /\ pc = "comment"
    /\ csv_ \in BOOLEAN
    /\ duration_ms = 1000
    /\ \E t \in SubjectNames, sub \in SubjectChoices, refs \in ReferenceLists :
          summaries_ =
             <<CounterSummary(t, sub.modifier, sub.group_id, sub.count,
                              sub.scale, FALSE, csv_)>> \o
             [i \in 1..Len(refs) |->
                 CounterSummary(ReferenceName(t), refs[i].modifier,
                                refs[i].group_id, refs[i].count, refs[i].scale,
                                FALSE, csv_)]
    /\ counters = <<>>
    /\ runs = 0
    /\ before = <<>>
    /\ signaled = FALSE
    /\ lastSignal = "none"
    /\ system_wide_collection_ = FALSE
    /\ monitored_threads_ = {}
    /\ cpus_ = {}
    /\ verbose_mode_ = FALSE
    /\ output_filename_ = FALSE
    /\ workload = "none"
    /\ opened = "none"
    /\ openedTarget = [threads |-> {}, cpus |-> {}]
    /\ readCalls = 0
    /\ report = NoReport
    /\ ret = "none"
    /\ failure = "none"
    /\ sleeps = 0
    /\ args = NoArgs

NextCmt == GenerateCommentsStep

SpecCmt == InitCmt /\ [][NextCmt]_vars

\* The reference event the claim pairs an event with
PairedName(type_name) ==
    CASE type_name = S_instructions -> S_cpu_cycles
      [] type_name = S_cache_misses -> S_cache_references
      [] type_name = S_branch_misses -> S_branch_instructions
      [] type_name = S_dcache_load_misses -> S_dcache_loads

Separator == IF csv_ THEN "," ELSE " "

\* "<cycles / instructions, six decimals><sep>cycles per instruction"
CpiText(s, other) ==
    FormatFixed(DivFixed(other.count, s.count, 6), 6)
    \o <<Separator>> \o
    <<"c","y","c","l","e","s"," ","p","e","r"," ",
      "i","n","s","t","r","u","c","t","i","o","n">>

\* "<misses / references * 100, six decimals>%<sep>miss rate"
MissRateText(s, other) ==
    FormatFixed(DivFixed(s.count * 100, other.count, 6), 6)
    \o <<"%", Separator>> \o <<"m","i","s","s"," ","r","a","t","e">>

\* The generic rate of the fallback rule, as the code prints it
GenericRateText(s) == RateText(s, UnitExceeded(s), Separator)

\* The reference summaries that would do for s: same modifier, monitored at
\* the same time, and for a "-misses" event a nonzero count
Qualifying(summaries, s) ==
    {j \in Positions(summaries, PairedName(s.type_name), s.modifier) :
        /\ SameTime(summaries[j], s)
        /\ s.type_name # S_instructions => summaries[j].count # 0}

\* The ratio comment of s over the reference summary other
RatioText(s, other) ==
    IF s.type_name = S_instructions THEN CpiText(s, other)
    ELSE MissRateText(s, other)

\* s itself allows a ratio: an "instructions" summary needs a nonzero count
SubjectAllows(s) == s.type_name = S_instructions => s.count # 0

FirstReference(summaries, s) ==
    IF Positions(summaries, PairedName(s.type_name), s.modifier) = {} THEN 0
    ELSE Least(Positions(summaries, PairedName(s.type_name), s.modifier))

-----------------------------------------------------------------------------
(* The termination flag across the whole of Run *)

BeforeWaitLoop == pc \in {"check", "parse", "events", "workload", "open", "start"}

\* C12: no step of Run clears `signaled`: it changes only from false to true,
\* and only in the handler; the main thread does not sleep once it is set, and
\* leaves the loop for the read; so a signal delivered at any point before
\* the wait loop is entered is not lost: the run ends without having slept,
\* and with the counters read once unless it failed before the loop.
C12_SignalNotLost ==
    /\ [][signaled => signaled']_vars
    /\ [][signaled' # signaled =>
            (signaled' /\ lastSignal' \in Signals /\ pc' = pc)]_vars
    /\ [][sleeps' # sleeps => ~signaled]_vars
    /\ [][(pc = "wait" /\ signaled /\ pc' # pc) =>
            (pc' = "read" /\ sleeps' = sleeps)]_vars
    /\ (signaled /\ BeforeWaitLoop) ~>
          (/\ pc = "done"
           /\ signaled
           /\ sleeps = 0
           /\ (readCalls = 1) = (failure \in {"none", "read", "fopen"}))

\* An interrupt delivered after the counters were opened, before the workload
\* is started
C12_Witness ==
    /\ pc = "start"
    /\ signaled
    /\ lastSignal = "SIGINT"
    /\ workload = "created"

====
